---------------------------- MODULE Spec2Model ----------------------------
(***************************************************************************)
(* A model of the mrcfile utility functions (src/mrcfile/utils.py) and of  *)
(* the validate() entry point as exercised by                              *)
(* src/tests/test_validation.py.                                           *)
(*                                                                         *)
(* The model is a harness that exercises one of four parts of the package  *)
(* (variable `test`):                                                      *)
(*   "mode"     mode_from_dtype / dtype_from_mode                          *)
(*   "shape"    data_shape_from_header / spacegroup_is_volume_stack        *)
(*   "stamp"    machine_stamp_from_byte_order and its module-level table   *)
(*   "validate" a file is created, header fields are overwritten, and      *)
(*              validate() is run on it                                    *)
(***************************************************************************)
EXTENDS Integers, Sequences, FiniteSets, TLC

VARIABLES
    test,              \* which part of the package the harness exercises
    arg_dtype,         \* mode: the dtype argument
    arg_mode,          \* mode: the mode argument
    ret_mode,          \* mode: outcome of mode_from_dtype(arg_dtype)
    ret_dtype,         \* mode: outcome of dtype_from_mode(arg_mode)
    ret_round,         \* mode: outcome of dtype_from_mode(mode_from_dtype(arg_dtype))
    header,            \* shape: the header argument
    ret_shape,         \* shape: outcome of data_shape_from_header(header)
    byteorder,         \* stamp: sys.byteorder of the running platform
    machine_stamps,    \* stamp: contents of the bytearrays in _byte_order_to_machine_stamp
    held,              \* stamp: table keys whose bytearray some caller holds a reference to
    nwrites,           \* stamp: number of writes callers made through such references
    ret_stamp,         \* stamp: the last call and its outcome
    file,              \* validate: the MRC file on disk (header fields and data block)
    ntamper,           \* validate: number of header fields overwritten so far
    validated          \* validate: outcome of validate(file): result, print output, warnings

vars == <<test, arg_dtype, arg_mode, ret_mode, ret_dtype, ret_round,
          header, ret_shape, byteorder, machine_stamps, held, nwrites,
          ret_stamp, file, ntamper, validated>>

(***************************************************************************)
(* Outcomes of a call: a returned value or a raised exception.             *)
(***************************************************************************)
NotCalled == [called |-> FALSE]
Return(v) == [called |-> TRUE, ok |-> TRUE, val |-> v]
Raise(e) == [called |-> TRUE, ok |-> FALSE, err |-> e]

None == [none |-> TRUE]

(***************************************************************************)
(* Bounds of the model.                                                    *)
(***************************************************************************)
MaxMode == 8
MaxDim == 3
MaxMz == 3
MaxWrites == 2
MaxTamper == 3

(***************************************************************************)
(* ------------------------------ mode ----------------------------------- *)
(***************************************************************************)

\* numpy dtypes, as far as mode_from_dtype reads them: dtype.kind and
\* dtype.itemsize.
Kinds == {"i", "u", "f", "c", "b"}
ItemSizes == {1, 2, 4, 8, 16}
Dtypes == [kind : Kinds, itemsize : ItemSizes]

np_int8 == [kind |-> "i", itemsize |-> 1]
np_int16 == [kind |-> "i", itemsize |-> 2]
np_uint16 == [kind |-> "u", itemsize |-> 2]
np_float32 == [kind |-> "f", itemsize |-> 4]
np_complex64 == [kind |-> "c", itemsize |-> 8]

\* str(n) for n >= 0, as a sequence of characters.
Digit(d) == <<"0", "1", "2", "3", "4", "5", "6", "7", "8", "9">>[d + 1]
RECURSIVE Str(_)
Str(n) == IF n < 10 THEN <<Digit(n)>> ELSE Str(n \div 10) \o <<Digit(n % 10)>>

\* Mutant: the table also accepts float64 (f8=2).
_dtype_to_mode_with_f8 ==
    [k \in {<<"f", "2">>, <<"f", "4">>, <<"f", "8">>, <<"i", "1">>, <<"i", "2">>,
            <<"u", "1">>, <<"u", "2">>, <<"c", "8">>} |->
        CASE k \in {<<"f", "2">>, <<"f", "4">>, <<"f", "8">>} -> 2
          [] k = <<"i", "1">> -> 0
          [] k = <<"i", "2">> -> 1
          [] k \in {<<"u", "1">>, <<"u", "2">>} -> 6
          [] k = <<"c", "8">> -> 4]

\* Mutant: uint8 is stored as mode 0 (u1=0).
_dtype_to_mode_u1_as_0 ==
    [k \in {<<"f", "2">>, <<"f", "4">>, <<"i", "1">>, <<"i", "2">>,
            <<"u", "1">>, <<"u", "2">>, <<"c", "8">>} |->
        CASE k \in {<<"f", "2">>, <<"f", "4">>} -> 2
          [] k \in {<<"i", "1">>, <<"u", "1">>} -> 0
          [] k = <<"i", "2">> -> 1
          [] k = <<"u", "2">> -> 6
          [] k = <<"c", "8">> -> 4]

\* _dtype_to_mode = dict(f2=2, f4=2, i1=0, i2=1, u1=6, u2=6, c8=4)
_dtype_to_mode ==
    [k \in {<<"f", "2">>, <<"f", "4">>, <<"i", "1">>, <<"i", "2">>,
            <<"u", "1">>, <<"u", "2">>, <<"c", "8">>} |->
        CASE k = <<"f", "2">> -> 2
          [] k = <<"f", "4">> -> 2
          [] k = <<"i", "1">> -> 0
          [] k = <<"i", "2">> -> 1
          [] k = <<"u", "1">> -> 6
          [] k = <<"u", "2">> -> 6
          [] k = <<"c", "8">> -> 4]

\* kind_and_size = dtype.kind + str(dtype.itemsize)
kind_and_size(dtype) == <<dtype.kind>> \o Str(dtype.itemsize)

mode_from_dtype(dtype) ==
    IF kind_and_size(dtype) \in DOMAIN _dtype_to_mode
    THEN Return(_dtype_to_mode[kind_and_size(dtype)])
    ELSE Raise("ValueError: cannot be converted to an MRC file mode")

\* The mode argument "may be given as any type which can be converted to an
\* int": numbers are modelled as fractions num/den, and int() truncates
\* towards zero.
Number(n) == [num |-> n, den |-> 1]
ModeArgs == {[num |-> n, den |-> d] : n \in -MaxMode..MaxMode, d \in {1, 2}}
int(x) == IF x.num >= 0 THEN x.num \div x.den ELSE -((-x.num) \div x.den)

\* Mutant: the table has an entry for mode 3 (3: np.int16).
_mode_to_dtype_with_3 ==
    [m \in {0, 1, 2, 3, 4, 6} |->
        CASE m = 0 -> np_int8
          [] m = 1 -> np_int16
          [] m = 2 -> np_float32
          [] m = 3 -> np_int16
          [] m = 4 -> np_complex64
          [] m = 6 -> np_uint16]

\* _mode_to_dtype = {0: np.int8, 1: np.int16, 2: np.float32, 4: np.complex64,
\*                   6: np.uint16}
_mode_to_dtype ==
    [m \in {0, 1, 2, 4, 6} |->
        CASE m = 0 -> np_int8
          [] m = 1 -> np_int16
          [] m = 2 -> np_float32
          [] m = 4 -> np_complex64
          [] m = 6 -> np_uint16]

dtype_from_mode(mode) ==
    IF int(mode) \in DOMAIN _mode_to_dtype
    THEN Return(_mode_to_dtype[int(mode)])
    ELSE Raise("ValueError: Unrecognised mode")

\* dtype_from_mode(mode_from_dtype(dtype)): an exception of the inner call
\* propagates.
round_trip(dtype) ==
    IF mode_from_dtype(dtype).ok
    THEN dtype_from_mode(Number(mode_from_dtype(dtype).val))
    ELSE mode_from_dtype(dtype)

(***************************************************************************)
(* ------------------------------ shape ---------------------------------- *)
(***************************************************************************)

\* from .constants import IMAGE_STACK_SPACEGROUP
IMAGE_STACK_SPACEGROUP == 0

spacegroup_is_volume_stack(ispg) == 401 <= ispg /\ ispg <= 630

Ispgs == {-1, IMAGE_STACK_SPACEGROUP, 1, 400, 401, 500, 630, 631}
Headers == [nx : 0..MaxDim, ny : 0..MaxDim, nz : 0..MaxDim,
            mz : -1..MaxMz, ispg : Ispgs]

\* nz // mz with mz = 0.  For Python integers the division raises
\* ZeroDivisionError; for the numpy integers of a header record it yields 0
\* (with a RuntimeWarning unless warnings are errors).
FloorDivByZero == {Raise("ZeroDivisionError"), Return(0)}

\* Mutant: a single image is taken for any nz (the test nz == 1 is missing).
data_shape_from_header_2D_for_any_nz(h) ==
    IF spacegroup_is_volume_stack(h.ispg)
    THEN IF h.mz = 0
         THEN {IF q.ok THEN Return(<<q.val, h.mz, h.ny, h.nx>>) ELSE q :
                   q \in FloorDivByZero}
         ELSE {Return(<<h.nz \div h.mz, h.mz, h.ny, h.nx>>)}
    ELSE IF h.ispg = IMAGE_STACK_SPACEGROUP
         THEN {Return(<<h.ny, h.nx>>)}
         ELSE {Return(<<h.nz, h.ny, h.nx>>)}

\* The outcomes of data_shape_from_header(header).
data_shape_from_header(h) ==
    IF spacegroup_is_volume_stack(h.ispg)
    THEN IF h.mz = 0
         THEN {IF q.ok THEN Return(<<q.val, h.mz, h.ny, h.nx>>) ELSE q :
                   q \in FloorDivByZero}
         ELSE {Return(<<h.nz \div h.mz, h.mz, h.ny, h.nx>>)}
    ELSE IF h.ispg = IMAGE_STACK_SPACEGROUP /\ h.nz = 1
         THEN {Return(<<h.ny, h.nx>>)}
         ELSE {Return(<<h.nz, h.ny, h.nx>>)}

(***************************************************************************)
(* ------------------------------ stamp ---------------------------------- *)
(***************************************************************************)

\* _byte_order_to_machine_stamp as the module is imported.
_byte_order_to_machine_stamp ==
    [k \in {"<", ">"} |-> IF k = "<" THEN <<68, 68, 0, 0>> ELSE <<17, 17, 0, 0>>]

ByteOrders == {"=", "<", ">", "|"}
Bytes == {0, 17, 68}

\* If byte order is '=', replace it with the system-native order
native(byte_order) ==
    IF byte_order = "="
    THEN (IF byteorder = "little" THEN "<" ELSE ">")
    ELSE byte_order

\* The function returns the bytearray object stored in the table, not a copy:
\* the caller sees its current contents and holds a reference to it.
machine_stamp_from_byte_order(byte_order) ==
    IF native(byte_order) \in DOMAIN machine_stamps
    THEN Return(machine_stamps[native(byte_order)])
    ELSE Raise("ValueError: Unrecognised byte order indicator")

(***************************************************************************)
(* ------------------------------ validate ------------------------------- *)
(* mrcfile.validate(name, print_file) itself is not among the source       *)
(* files; it is modelled from the validation rules of the specification    *)
(* and from what src/tests/test_validation.py observes of it.              *)
(***************************************************************************)

MAP_ID == "MAP "
MRC_FORMAT_VERSION == 20140
EXTENDED_HEADER_TYPES == {"CCP4", "MRCO", "SERI", "AGAR", "FEI1"}
NumLabels == 10

RECURSIVE Sum(_)
Sum(s) == IF s = <<>> THEN 0 ELSE Head(s) + Sum(Tail(s))
Squares(s) == [i \in 1..Len(s) |-> s[i] * s[i]]
Range(s) == {s[i] : i \in 1..Len(s)}
SeqMin(s) == CHOOSE m \in Range(s) : \A v \in Range(s) : m <= v
SeqMax(s) == CHOOSE m \in Range(s) : \A v \in Range(s) : m >= v

\* The file written by
\*     with mrcfile.new(name) as mrc: mrc.set_data(<float32 array>)
\* Here the array has shape (2, 1, 2) and holds 1, 1, 3, 3: minimum 1,
\* maximum 3, mean 2, RMS deviation 1.  A new file has one label with text.
NewFile ==
    [map |-> MAP_ID,
     machst |-> _byte_order_to_machine_stamp["<"],
     mode |-> 2,
     nx |-> 2, ny |-> 1, nz |-> 2,
     mx |-> 2, my |-> 1, mz |-> 2,
     ispg |-> 1,
     nlabl |-> 1,
     label |-> [i \in 1..NumLabels |-> IF i = 1 THEN "Created by mrcfile.py" ELSE ""],
     cella_x |-> 2, cella_y |-> 1, cella_z |-> 2,
     mapc |-> 1, mapr |-> 2, maps |-> 3,
     nversion |-> MRC_FORMAT_VERSION,
     nsymbt |-> 0,
     exttyp |-> "",
     dmin |-> 1, dmax |-> 3, dmean |-> 2, rms |-> 1,
     data |-> <<1, 1, 3, 3>>]

\* The values the tests overwrite header fields with (mrc.header.mx = -10 and
\* so on), scaled to the data of NewFile.
TamperValues ==
    [map |-> {"fake"},
     machst |-> {<<32, 32, 32, 32>>},
     mode |-> {8},
     nz |-> {1, 3},
     mx |-> {-10}, my |-> {-10}, mz |-> {-10, 3},
     ispg |-> {-20, 401},
     nlabl |-> {-3, 2, 3},
     cella_x |-> {-10}, cella_y |-> {-10}, cella_z |-> {-10},
     mapc |-> {5},
     nversion |-> {0},
     nsymbt |-> {40},
     exttyp |-> {"Fake"},
     dmin |-> {0, 2, 4},
     dmax |-> {0, 2},
     dmean |-> {0, 3},
     rms |-> {-1, 2}]
TamperLabels == {2, 3}

\* a % b as Python computes it (the result has the sign of b).
PyMod(a, b) == a - b * (a \div b)

\* The rules of validate, each a condition on the file.
MapIdIncorrect(f) == f.map # MAP_ID

MachineStampInvalid(f) ==
    f.machst \notin {_byte_order_to_machine_stamp[k] :
                         k \in DOMAIN _byte_order_to_machine_stamp}

ModeUnrecognised(f) == ~dtype_from_mode(Number(f.mode)).ok

\* Number of elements the header declares for the data block.
ExpectedElements(f) == f.nx * f.ny * f.nz

DataBlockTooSmall(f) ==
    ~ModeUnrecognised(f) /\ Len(f.data) < ExpectedElements(f)

FileLargerThanExpected(f) ==
    ~ModeUnrecognised(f) /\ Len(f.data) > ExpectedElements(f)

\* mrc.data: the elements read for the header's dimensions, or None when the
\* mode is unrecognised or the data block is too small.
DataAvailable(f) == ~ModeUnrecognised(f) /\ ~DataBlockTooSmall(f)
Data(f) == SubSeq(f.data, 1, ExpectedElements(f))

Negative(v) == v < 0

AxisMappingInvalid(f) == {f.mapc, f.mapr, f.maps} # {1, 2, 3}

VolumeStackIndivisible(f) ==
    spacegroup_is_volume_stack(f.ispg) /\ PyMod(f.nz, f.mz) # 0

HasText(l) == l # ""
TextLabels(f) == {i \in 1..NumLabels : HasText(f.label[i])}

\* Mutant: the count is not reported when empty labels are reported (one
\* combined line for the two conditions).
LabelCountWrong_UnlessEmptyLabels(f) ==
    /\ f.nlabl # Cardinality(TextLabels(f))
    /\ ~\E i \in 1..NumLabels, j \in 1..NumLabels :
            i < j /\ ~HasText(f.label[i]) /\ HasText(f.label[j])

LabelCountWrong(f) == f.nlabl # Cardinality(TextLabels(f))

EmptyLabelsInList(f) ==
    \E i \in 1..NumLabels, j \in 1..NumLabels :
        i < j /\ ~HasText(f.label[i]) /\ HasText(f.label[j])

VersionIncorrect(f) == f.nversion # MRC_FORMAT_VERSION

ExttypUnrecognised(f) ==
    f.nsymbt > 0 /\ f.exttyp \notin EXTENDED_HEADER_TYPES

\* Mutant: a dmin below the minimum of the data also counts as undetermined.
MinMaxDetermined_BelowMinimumExempt(f) ==
    f.dmin <= f.dmax /\ f.dmin >= SeqMin(Data(f))

\* The undetermined-statistic conventions.
MinMaxDetermined(f) == f.dmin <= f.dmax
\* Mutant: a dmean below either of dmin and dmax counts as undetermined.
MeanDetermined_BelowEither(f) == ~(f.dmean < f.dmin \/ f.dmean < f.dmax)

MeanDetermined(f) == ~(f.dmean < f.dmin /\ f.dmean < f.dmax)
RmsDetermined(f) == f.rms >= 0

\* Comparisons of the header statistics with those of the data.  The mean is
\* Sum/n and the RMS deviation is sqrt(n * SumSq - Sum^2) / n; both are
\* compared exactly, without forming the quotient or the root.
MinWrong(f) ==
    DataAvailable(f) /\ MinMaxDetermined(f) /\ f.dmin # SeqMin(Data(f))

MaxWrong(f) ==
    DataAvailable(f) /\ MinMaxDetermined(f) /\ f.dmax # SeqMax(Data(f))

MeanWrong(f) ==
    DataAvailable(f) /\ MeanDetermined(f)
        /\ f.dmean * Len(Data(f)) # Sum(Data(f))

RmsWrong(f) ==
    DataAvailable(f) /\ RmsDetermined(f)
        /\ f.rms * f.rms * Len(Data(f)) * Len(Data(f))
               # Len(Data(f)) * Sum(Squares(Data(f))) - Sum(Data(f)) * Sum(Data(f))

\* The state of a validation run: the lines printed, the warnings raised and
\* the result so far.
StartValidation == [print_output |-> <<>>, warnings |-> <<>>, valid |-> TRUE]

\* Mutant: nothing is logged once a check has failed.
Log_StopAtFirstFailure(st, cond, message) ==
    IF cond /\ st.valid
    THEN [st EXCEPT !.print_output = Append(@, message), !.valid = FALSE]
    ELSE st

\* Mutant: the line is printed but the result is left as it was.
Log_KeepsValid(st, cond, message) ==
    IF cond
    THEN [st EXCEPT !.print_output = Append(@, message)]
    ELSE st

\* log(message); valid = False
Log(st, cond, message) ==
    IF cond
    THEN [st EXCEPT !.print_output = Append(@, message), !.valid = FALSE]
    ELSE st

\* Mutant: the warning is raised on opening the file and again on validating.
WarnAndLog_WarnsTwice(st, cond, message) ==
    IF cond
    THEN [Log(st, cond, message) EXCEPT !.warnings = @ \o <<message, message>>]
    ELSE st

\* A condition that is also signalled by warnings.warn(message, RuntimeWarning).
WarnAndLog(st, cond, message) ==
    IF cond
    THEN [Log(st, cond, message) EXCEPT !.warnings = Append(@, message)]
    ELSE st

validate(f) ==
    LET c1 == WarnAndLog(StartValidation, MapIdIncorrect(f), "Map ID string")
        c2 == WarnAndLog(c1, MachineStampInvalid(f), "machine stamp")
        c3 == WarnAndLog(c2, ModeUnrecognised(f), "mode")
        c4a == WarnAndLog(c3, DataBlockTooSmall(f), "data block")
        c4b == WarnAndLog(c4a, FileLargerThanExpected(f), "larger than expected")
        c5a == Log(c4b, Negative(f.mx), "Header field 'mx' is negative")
        c5b == Log(c5a, Negative(f.my), "Header field 'my' is negative")
        c5c == Log(c5b, Negative(f.mz), "Header field 'mz' is negative")
        c6 == Log(c5c, Negative(f.ispg), "Header field 'ispg' is negative")
        c7 == Log(c6, Negative(f.nlabl), "Header field 'nlabl' is negative")
        c8a == Log(c7, Negative(f.cella_x), "Cell dimension 'x' is negative")
        c8b == Log(c8a, Negative(f.cella_y), "Cell dimension 'y' is negative")
        c8c == Log(c8b, Negative(f.cella_z), "Cell dimension 'z' is negative")
        c9 == Log(c8c, AxisMappingInvalid(f), "Invalid axis mapping")
        c10 == Log(c9, VolumeStackIndivisible(f), "nz should be divisible by mz")
        c11a == Log(c10, LabelCountWrong(f), "nlabl is wrong")
        c11b == Log(c11a, EmptyLabelsInList(f), "empty labels appear between text-containing labels")
        c12 == WarnAndLog(c11b, VersionIncorrect(f), "File does not declare MRC format version 20140")
        c13 == Log(c12, ExttypUnrecognised(f), "Extended header type is undefined or unrecognised")
        c14a == Log(c13, MinWrong(f), "minimum")
        c14b == Log(c14a, MaxWrong(f), "maximum")
        c14c == Log(c14b, MeanWrong(f), "mean")
        c15 == Log(c14c, RmsWrong(f), "RMS deviation")
    IN  [result |-> c15.valid,
         print_output |-> c15.print_output,
         warnings |-> c15.warnings]

(***************************************************************************)
(* ------------------------------ harness -------------------------------- *)
(***************************************************************************)

IdleMode ==
    /\ arg_dtype = None /\ arg_mode = None
    /\ ret_mode = NotCalled /\ ret_dtype = NotCalled /\ ret_round = NotCalled

IdleShape == header = None /\ ret_shape = NotCalled

IdleStamp ==
    /\ byteorder = "little"
    /\ machine_stamps = _byte_order_to_machine_stamp
    /\ held = {} /\ nwrites = 0 /\ ret_stamp = NotCalled

IdleValidate == file = None /\ ntamper = 0 /\ validated = NotCalled

InitMode ==
    /\ test = "mode"
    /\ arg_dtype \in Dtypes
    /\ arg_mode \in ModeArgs
    /\ ret_mode = NotCalled /\ ret_dtype = NotCalled /\ ret_round = NotCalled
    /\ IdleShape /\ IdleStamp /\ IdleValidate

InitShape ==
    /\ test = "shape"
    /\ header \in Headers
    /\ ret_shape = NotCalled
    /\ IdleMode /\ IdleStamp /\ IdleValidate

InitStamp ==
    /\ test = "stamp"
    /\ byteorder \in {"little", "big"}
    /\ machine_stamps = _byte_order_to_machine_stamp
    /\ held = {} /\ nwrites = 0 /\ ret_stamp = NotCalled
    /\ IdleMode /\ IdleShape /\ IdleValidate

\* A file is created as in test_good_file.
InitValidate ==
    /\ test = "validate"
    /\ file = NewFile
    /\ ntamper = 0
    /\ validated = NotCalled
    /\ IdleMode /\ IdleShape /\ IdleStamp

Init == InitMode \/ InitShape \/ InitStamp \/ InitValidate

ModeVars == <<arg_dtype, arg_mode, ret_mode, ret_dtype, ret_round>>
ShapeVars == <<header, ret_shape>>
StampVars == <<byteorder, machine_stamps, held, nwrites, ret_stamp>>
ValidateVars == <<file, ntamper, validated>>

CallModeFromDtype ==
    /\ test = "mode" /\ ret_mode = NotCalled
    /\ ret_mode' = mode_from_dtype(arg_dtype)
    /\ UNCHANGED <<test, arg_dtype, arg_mode, ret_dtype, ret_round,
                   ShapeVars, StampVars, ValidateVars>>

CallDtypeFromMode ==
    /\ test = "mode" /\ ret_dtype = NotCalled
    /\ ret_dtype' = dtype_from_mode(arg_mode)
    /\ UNCHANGED <<test, arg_dtype, arg_mode, ret_mode, ret_round,
                   ShapeVars, StampVars, ValidateVars>>

CallRoundTrip ==
    /\ test = "mode" /\ ret_round = NotCalled
    /\ ret_round' = round_trip(arg_dtype)
    /\ UNCHANGED <<test, arg_dtype, arg_mode, ret_mode, ret_dtype,
                   ShapeVars, StampVars, ValidateVars>>

CallDataShapeFromHeader ==
    /\ test = "shape" /\ ret_shape = NotCalled
    /\ ret_shape' \in data_shape_from_header(header)
    /\ UNCHANGED <<test, header, ModeVars, StampVars, ValidateVars>>

\* A caller asks for the stamp of a byte order.
CallMachineStamp ==
    /\ test = "stamp"
    /\ \E byte_order \in ByteOrders :
        /\ ret_stamp' = [order |-> byte_order,
                         res |-> machine_stamp_from_byte_order(byte_order)]
        /\ held' = IF machine_stamp_from_byte_order(byte_order).ok
                   THEN held \cup {native(byte_order)}
                   ELSE held
    /\ UNCHANGED <<test, byteorder, machine_stamps, nwrites, ModeVars, ShapeVars,
                   ValidateVars>>

\* A caller writes one byte of a bytearray it was given (stamp[i] = b).
CallerWritesStamp ==
    /\ test = "stamp" /\ nwrites < MaxWrites
    /\ \E k \in held, i \in 1..4, b \in Bytes :
        machine_stamps' = [machine_stamps EXCEPT ![k][i] = b]
    /\ nwrites' = nwrites + 1
    /\ UNCHANGED <<test, byteorder, held, ret_stamp, ModeVars, ShapeVars,
                   ValidateVars>>

\* The test overwrites a header field of the file before it is closed.
TamperHeader ==
    /\ test = "validate" /\ validated = NotCalled /\ ntamper < MaxTamper
    /\ \E fld \in DOMAIN TamperValues : \E v \in TamperValues[fld] :
        file' = [file EXCEPT ![fld] = v]
    /\ ntamper' = ntamper + 1
    /\ UNCHANGED <<test, validated, ModeVars, ShapeVars, StampVars>>

\* The test sets a label: mrc.header.label[i] = 'test label'.
TamperLabel ==
    /\ test = "validate" /\ validated = NotCalled /\ ntamper < MaxTamper
    /\ \E i \in TamperLabels :
        file' = [file EXCEPT !.label[i] = "test label"]
    /\ ntamper' = ntamper + 1
    /\ UNCHANGED <<test, validated, ModeVars, ShapeVars, StampVars>>

\* result = mrcfile.validate(name, print_file=print_stream), warnings recorded.
CallValidate ==
    /\ test = "validate" /\ validated = NotCalled
    /\ validated' = Return(validate(file))
    /\ UNCHANGED <<test, file, ntamper, ModeVars, ShapeVars, StampVars>>

Next ==
    \/ CallModeFromDtype
    \/ CallDtypeFromMode
    \/ CallRoundTrip
    \/ CallDataShapeFromHeader
    \/ CallMachineStamp
    \/ CallerWritesStamp
    \/ TamperHeader
    \/ TamperLabel
    \/ CallValidate

Spec == Init /\ [][Next]_vars

(***************************************************************************)
(* ------------------------------ properties ----------------------------- *)
(***************************************************************************)

\* The diagnostic lines of validate in their fixed order.
RuleOrder ==
    <<"Map ID string", "machine stamp", "mode", "data block",
      "larger than expected",
      "Header field 'mx' is negative", "Header field 'my' is negative",
      "Header field 'mz' is negative", "Header field 'ispg' is negative",
      "Header field 'nlabl' is negative",
      "Cell dimension 'x' is negative", "Cell dimension 'y' is negative",
      "Cell dimension 'z' is negative",
      "Invalid axis mapping", "nz should be divisible by mz",
      "nlabl is wrong", "empty labels appear between text-containing labels",
      "File does not declare MRC format version 20140",
      "Extended header type is undefined or unrecognised",
      "minimum", "maximum", "mean", "RMS deviation">>

RecognisedModes == {0, 1, 2, 4, 6}

\* Whether file f violates the rule a diagnostic line stands for.
RuleViolated(line, f) ==
    CASE line = "Map ID string" -> f.map # "MAP "
      [] line = "machine stamp" ->
            f.machst # <<68, 68, 0, 0>> /\ f.machst # <<17, 17, 0, 0>>
      [] line = "mode" -> f.mode \notin RecognisedModes
      [] line = "data block" ->
            f.mode \in RecognisedModes /\ Len(f.data) < f.nx * f.ny * f.nz
      [] line = "larger than expected" ->
            f.mode \in RecognisedModes /\ Len(f.data) > f.nx * f.ny * f.nz
      [] line = "Header field 'mx' is negative" -> f.mx < 0
      [] line = "Header field 'my' is negative" -> f.my < 0
      [] line = "Header field 'mz' is negative" -> f.mz < 0
      [] line = "Header field 'ispg' is negative" -> f.ispg < 0
      [] line = "Header field 'nlabl' is negative" -> f.nlabl < 0
      [] line = "Cell dimension 'x' is negative" -> f.cella_x < 0
      [] line = "Cell dimension 'y' is negative" -> f.cella_y < 0
      [] line = "Cell dimension 'z' is negative" -> f.cella_z < 0
      [] line = "Invalid axis mapping" -> AxisMappingInvalid(f)
      [] line = "nz should be divisible by mz" -> VolumeStackIndivisible(f)
      [] line = "nlabl is wrong" -> LabelCountWrong(f)
      [] line = "empty labels appear between text-containing labels" ->
            EmptyLabelsInList(f)
      [] line = "File does not declare MRC format version 20140" ->
            f.nversion # 20140
      [] line = "Extended header type is undefined or unrecognised" ->
            ExttypUnrecognised(f)
      [] line = "minimum" -> MinWrong(f)
      [] line = "maximum" -> MaxWrong(f)
      [] line = "mean" -> MeanWrong(f)
      [] line = "RMS deviation" -> RmsWrong(f)

ViolatedRule(line) == RuleViolated(line, file)
Printed == validated.val.print_output
Warned == validated.val.warnings
Count(s, x) == Cardinality({i \in 1..Len(s) : s[i] = x})

\* C1: validate never stops at the first failure.  After a run, the printed
\* output is exactly the diagnostic lines of the rules the file violates, one
\* line per violated rule and none for a rule that is not violated, in the
\* fixed rule order; its length is the number of violated rules.
C1_EveryViolatedRuleOneLineInOrder ==
    validated.called =>
        /\ Printed = SelectSeq(RuleOrder, ViolatedRule)
        /\ Len(Printed) = Cardinality({r \in Range(RuleOrder) : ViolatedRule(r)})

\* C1 witness: a run whose first check fails and whose last check fails too,
\* with a further violated rule in between.
C1_Witness ==
    /\ validated.called
    /\ Len(Printed) >= 3
    /\ Printed[1] = "Map ID string"
    /\ Printed[Len(Printed)] = "RMS deviation"

\* C2: validate returns false if and only if it printed at least one
\* diagnostic line; an untampered freshly created file gives true with empty
\* output.
C2_FalseIffPrinted ==
    validated.called =>
        /\ (validated.val.result = FALSE) <=> (Len(Printed) > 0)
        /\ validated.val.result \in BOOLEAN
        /\ ntamper = 0 => validated.val.result = TRUE /\ Printed = <<>>

\* C2 witness: the untampered file validated as true with empty output.
C2_Witness ==
    /\ validated.called /\ ntamper = 0
    /\ validated.val.result = TRUE /\ Printed = <<>>

\* C3: mode_from_dtype is an exact lookup on (kind, byte width): signed-8
\* gives 0, signed-16 gives 1, float-16 and float-32 give 2, complex-64 gives
\* 4, unsigned-8 and unsigned-16 give 6; every other pair fails with an error
\* and no mode.
C3_ModeFromDtypeExactLookup ==
    ret_mode.called =>
        LET k == arg_dtype.kind
            w == arg_dtype.itemsize
        IN  CASE k = "i" /\ w = 1 -> ret_mode = Return(0)
              [] k = "i" /\ w = 2 -> ret_mode = Return(1)
              [] k = "f" /\ w \in {2, 4} -> ret_mode = Return(2)
              [] k = "c" /\ w = 8 -> ret_mode = Return(4)
              [] k = "u" /\ w \in {1, 2} -> ret_mode = Return(6)
              [] OTHER -> ~ret_mode.ok

\* C3 witness: complex-128 was looked up and the call failed.
C3_Witness ==
    /\ ret_mode.called /\ ~ret_mode.ok
    /\ arg_dtype = [kind |-> "c", itemsize |-> 16]

\* C4: dtype_from_mode succeeds exactly for the integer modes 0, 1, 2, 4 and
\* 6 (int8, int16, float32, complex64, uint16); for mode 3 and every other
\* integer, negative ones included, it fails with an unrecognised-mode error.
C4_DtypeFromModeExactlyFiveModes ==
    (ret_dtype.called /\ arg_mode.den = 1) =>
        LET m == arg_mode.num
        IN  CASE m = 0 -> ret_dtype = Return([kind |-> "i", itemsize |-> 1])
              [] m = 1 -> ret_dtype = Return([kind |-> "i", itemsize |-> 2])
              [] m = 2 -> ret_dtype = Return([kind |-> "f", itemsize |-> 4])
              [] m = 4 -> ret_dtype = Return([kind |-> "c", itemsize |-> 8])
              [] m = 6 -> ret_dtype = Return([kind |-> "u", itemsize |-> 2])
              [] OTHER -> ret_dtype = Raise("ValueError: Unrecognised mode")

\* C4 witness: mode 3 was looked up and the call failed.
C4_Witness ==
    /\ ret_dtype.called /\ ~ret_dtype.ok
    /\ arg_mode = [num |-> 3, den |-> 1]

SupportedDtypes ==
    {[kind |-> "i", itemsize |-> 1], [kind |-> "i", itemsize |-> 2],
     [kind |-> "u", itemsize |-> 1], [kind |-> "u", itemsize |-> 2],
     [kind |-> "f", itemsize |-> 2], [kind |-> "f", itemsize |-> 4],
     [kind |-> "c", itemsize |-> 8]}

\* C5: for every supported element type t, dtype_from_mode(mode_from_dtype(t))
\* succeeds with a type of the same kind and at least the byte width of t: t
\* itself for int8, int16, uint16, float32 and complex64, uint16 for uint8 and
\* float32 for float16.
C5_RoundTripSameKindWidened ==
    (ret_round.called /\ arg_dtype \in SupportedDtypes) =>
        /\ ret_round.ok
        /\ ret_round.val.kind = arg_dtype.kind
        /\ ret_round.val.itemsize >= arg_dtype.itemsize
        /\ ret_round.val =
              CASE arg_dtype = [kind |-> "u", itemsize |-> 1] ->
                      [kind |-> "u", itemsize |-> 2]
                [] arg_dtype = [kind |-> "f", itemsize |-> 2] ->
                      [kind |-> "f", itemsize |-> 4]
                [] OTHER -> arg_dtype

\* C5 witness: uint8 went through the round trip and came back as uint16.
C5_Witness ==
    /\ ret_round.called
    /\ arg_dtype = [kind |-> "u", itemsize |-> 1]
    /\ ret_round = Return([kind |-> "u", itemsize |-> 2])

\* C6: data_shape_from_header returns exactly one of three shapes for every
\* header: (nz/mz, mz, ny, nx) when 401 <= ispg <= 630; (ny, nx) when ispg is
\* the image-stack value and nz = 1; (nz, ny, nx) in every other case.
C6_ShapeOneOfThreeCases ==
    ret_shape.called =>
        /\ ret_shape.ok
        /\ IF 401 <= header.ispg /\ header.ispg <= 630
           THEN /\ header.mz # 0
                /\ ret_shape.val =
                      <<header.nz \div header.mz, header.mz, header.ny, header.nx>>
           ELSE IF header.ispg = IMAGE_STACK_SPACEGROUP /\ header.nz = 1
                THEN ret_shape.val = <<header.ny, header.nx>>
                ELSE ret_shape.val = <<header.nz, header.ny, header.nx>>

\* C7: when ispg flags a volume stack and mz = 0, data_shape_from_header
\* fails with an invalid-sampling-rate error and returns no shape; it never
\* divides nz by zero.
C7_ZeroMzIsInvalidSamplingRate ==
    (/\ ret_shape.called
     /\ 401 <= header.ispg /\ header.ispg <= 630
     /\ header.mz = 0) =>
        /\ ~ret_shape.ok
        /\ ret_shape.err # "ZeroDivisionError"

\* C8: machine_stamp_from_byte_order is a pure function of its argument:
\* (0x44, 0x44, 0, 0) for little-endian, (0x11, 0x11, 0, 0) for big-endian,
\* the platform's one of the two for native, an error for any other
\* indicator; the same on every call, whatever earlier callers did with the
\* values they were given.
C8_MachineStampIsPure ==
    ret_stamp # NotCalled =>
        CASE ret_stamp.order = "<" -> ret_stamp.res = Return(<<68, 68, 0, 0>>)
          [] ret_stamp.order = ">" -> ret_stamp.res = Return(<<17, 17, 0, 0>>)
          [] ret_stamp.order = "=" ->
                ret_stamp.res = IF byteorder = "little"
                                THEN Return(<<68, 68, 0, 0>>)
                                ELSE Return(<<17, 17, 0, 0>>)
          [] OTHER -> ~ret_stamp.res.ok

\* The conditions that validate signals twice: a diagnostic line and a
\* RuntimeWarning.
DualSignalled ==
    {"Map ID string", "machine stamp", "mode", "data block",
     "larger than expected", "File does not declare MRC format version 20140"}

DualViolated == {c \in DualSignalled : ViolatedRule(c)}

TrueMin(f) == SeqMin(SubSeq(f.data, 1, f.nx * f.ny * f.nz))
TrueMax(f) == SeqMax(SubSeq(f.data, 1, f.nx * f.ny * f.nz))
DminBelowTrueMinimum ==
    /\ validated.called
    /\ file.mode \in RecognisedModes
    /\ Len(file.data) >= file.nx * file.ny * file.nz
    /\ file.dmin < TrueMin(file)
OtherStatisticsCorrect ==
    /\ file.dmax = TrueMax(file)
    /\ ~MeanWrong(file) /\ MeanDetermined(file)
    /\ ~RmsWrong(file) /\ RmsDetermined(file)

\* C10 as stated: a file whose header dmin is below the true minimum of the
\* data (dmax, dmean and rms correct) is exempt from the minimum check:
\* validate prints no line about the minimum.
C10_DminBelowMinimumIsExempt ==
    (DminBelowTrueMinimum /\ OtherStatisticsCorrect) =>
        Count(Printed, "minimum") = 0

\* C10 as amended: a file whose header dmin is below the true minimum of the
\* data (dmax, dmean and rms correct) is not exempt from the minimum check:
\* validate returns false and prints the minimum line, once, and no line
\* about the maximum, the mean or the RMS deviation.  Whenever dmin is below
\* the true minimum without exceeding dmax, the maximum and the mean are
\* still checked independently: their lines are printed exactly when dmax
\* differs from the true maximum, and when dmean is not undetermined and
\* differs from the true mean.
C10_DminBelowMinimumIsReported ==
    /\ (DminBelowTrueMinimum /\ OtherStatisticsCorrect) =>
          /\ validated.val.result = FALSE
          /\ Count(Printed, "minimum") = 1
          /\ Count(Printed, "maximum") = 0
          /\ Count(Printed, "mean") = 0
          /\ Count(Printed, "RMS deviation") = 0
    /\ (DminBelowTrueMinimum /\ file.dmin <= file.dmax) =>
          /\ Count(Printed, "minimum") = 1
          /\ Count(Printed, "maximum") = 1 <=> file.dmax # TrueMax(file)
          /\ Count(Printed, "mean") = 1 <=>
                (/\ ~(file.dmean < file.dmin /\ file.dmean < file.dmax)
                 /\ file.dmean * (file.nx * file.ny * file.nz)
                       # Sum(SubSeq(file.data, 1, file.nx * file.ny * file.nz)))

\* C10 witness: dmin was set below the true minimum, the other statistics are
\* as computed, and the run printed the minimum line alone.
C10_Witness ==
    /\ DminBelowTrueMinimum /\ OtherStatisticsCorrect
    /\ file.dmin = 0
    /\ Printed = <<"minimum">>

\* The two conditions of the label check, and the label lines printed.
NlablDiffers ==
    file.nlabl # Cardinality({i \in 1..NumLabels : file.label[i] # ""})
EmptyBetweenText ==
    \E i \in 1..NumLabels, j \in 1..NumLabels :
        i < j /\ file.label[i] = "" /\ file.label[j] # ""
LabelLines ==
    Count(Printed, "nlabl is wrong")
        + Count(Printed, "empty labels appear between text-containing labels")

\* C11 as stated: whenever nlabl differs from the number of text-containing
\* labels, or an empty label appears between text-containing labels, or both,
\* validate prints exactly one label line, never two.
C11_SingleCombinedLabelLine ==
    (validated.called /\ (NlablDiffers \/ EmptyBetweenText)) => LabelLines = 1

\* C11 as amended: the label check prints one line for each of its two
\* conditions that holds: the count line exactly when nlabl differs from the
\* number of text-containing labels, the empty-labels line exactly when an
\* empty label appears between text-containing labels; so one line when one
\* condition holds and two lines when both hold.
C11_OneLabelLinePerCondition ==
    validated.called =>
        /\ Count(Printed, "nlabl is wrong") = IF NlablDiffers THEN 1 ELSE 0
        /\ Count(Printed, "empty labels appear between text-containing labels")
              = IF EmptyBetweenText THEN 1 ELSE 0
        /\ (NlablDiffers /\ EmptyBetweenText) => LabelLines = 2

\* C11 witness: nlabl is wrong and an empty label lies between labels with
\* text; the run printed both label lines.
C11_Witness ==
    /\ validated.called
    /\ NlablDiffers /\ EmptyBetweenText
    /\ LabelLines = 2

\* The data validate reads from the file, when there is any, and its
\* statistics compared with the header's.
DataRead ==
    /\ validated.called
    /\ file.mode \in RecognisedModes
    /\ Len(file.data) >= file.nx * file.ny * file.nz
ReadData == SubSeq(file.data, 1, file.nx * file.ny * file.nz)
DminIsTrue == file.dmin = SeqMin(ReadData)
DmaxIsTrue == file.dmax = SeqMax(ReadData)
DmeanIsTrue == file.dmean * Len(ReadData) = Sum(ReadData)
RmsIsTrue ==
    /\ file.rms >= 0
    /\ file.rms * file.rms * Len(ReadData) * Len(ReadData)
          = Len(ReadData) * Sum(Squares(ReadData)) - Sum(ReadData) * Sum(ReadData)

MinMaxUndetermined == file.dmin > file.dmax
MeanUndetermined == file.dmean < file.dmin /\ file.dmean < file.dmax
RmsUndetermined == file.rms < 0

StatisticsLines == {"minimum", "maximum", "mean", "RMS deviation"}
NothingElseWrong ==
    \A r \in Range(RuleOrder) \ StatisticsLines : ~ViolatedRule(r)

\* C12: an undetermined statistic is exempt from its check: with dmin > dmax
\* neither the minimum nor the maximum is checked, with dmean less than both
\* dmin and dmax the mean is not checked, with rms negative the RMS is not
\* checked.  A file whose only wrong statistics are undetermined validates
\* as true, and a statistic that is not undetermined is still checked when
\* others are: a wrong dmean, minimum, maximum or RMS is reported.
C12_UndeterminedStatisticsExempt ==
    DataRead =>
        /\ MinMaxUndetermined =>
              Count(Printed, "minimum") = 0 /\ Count(Printed, "maximum") = 0
        /\ MeanUndetermined => Count(Printed, "mean") = 0
        /\ RmsUndetermined => Count(Printed, "RMS deviation") = 0
        /\ (/\ NothingElseWrong
            /\ MinMaxUndetermined \/ (DminIsTrue /\ DmaxIsTrue)
            /\ MeanUndetermined \/ DmeanIsTrue
            /\ RmsUndetermined \/ RmsIsTrue) =>
              validated.val.result = TRUE /\ Printed = <<>>
        /\ (~MinMaxUndetermined /\ ~DminIsTrue) => Count(Printed, "minimum") = 1
        /\ (~MinMaxUndetermined /\ ~DmaxIsTrue) => Count(Printed, "maximum") = 1
        /\ (~MeanUndetermined /\ ~DmeanIsTrue) =>
              Count(Printed, "mean") = 1 /\ validated.val.result = FALSE
        /\ (~RmsUndetermined /\ ~RmsIsTrue) => Count(Printed, "RMS deviation") = 1

\* C12 witness: dmin > dmax, so minimum and maximum are undetermined, and a
\* wrong dmean that is not undetermined is the one line reported.
C12_Witness ==
    /\ DataRead
    /\ MinMaxUndetermined /\ ~DminIsTrue
    /\ ~MeanUndetermined /\ ~DmeanIsTrue
    /\ validated.val.result = FALSE
    /\ Printed = <<"mean">>

\* A run on a file whose wrong statistics are all undetermined: true, with
\* no output.
C12_AllUndeterminedSeen ==
    /\ DataRead
    /\ MinMaxUndetermined /\ MeanUndetermined /\ RmsUndetermined
    /\ validated.val.result = TRUE

\* Number of elements of an array of the given shape.
RECURSIVE Product(_)
Product(shape) == IF shape = <<>> THEN 1 ELSE Head(shape) * Product(Tail(shape))

HeaderElements == header.nx * header.ny * header.nz
VolumeStackHeader == 401 <= header.ispg /\ header.ispg <= 630
Divides(d, n) == \E q \in 0..n : q * d = n

\* C13: for every header with nx, ny, nz >= 0 the number of elements of the
\* shape returned by data_shape_from_header is nx * ny * nz in each of the
\* three cases, provided that in the volume-stack case mz > 0 and nz is
\* divisible by mz; in the volume-stack case with mz > 0 and nz not divisible
\* by mz the shape holds strictly fewer than nx * ny * nz elements (for
\* nx, ny > 0).
C13_ShapeHoldsAllElements ==
    (/\ ret_shape.called
     /\ header.nx >= 0 /\ header.ny >= 0 /\ header.nz >= 0
     /\ VolumeStackHeader => header.mz > 0) =>
        /\ ret_shape.ok
        /\ (VolumeStackHeader => Divides(header.mz, header.nz)) =>
              Product(ret_shape.val) = HeaderElements
        /\ (/\ VolumeStackHeader /\ ~Divides(header.mz, header.nz)
            /\ header.nx > 0 /\ header.ny > 0) =>
              Product(ret_shape.val) < HeaderElements

\* C13 witness: a volume stack with nz = 3 and mz = 2 got the shape
\* (1, 2, 1, 1), which holds 2 of the 3 elements.
C13_Witness ==
    /\ ret_shape.called
    /\ header = [nx |-> 1, ny |-> 1, nz |-> 3, mz |-> 2, ispg |-> 401]
    /\ ret_shape = Return(<<1, 2, 1, 1>>)

\* A single image (2D shape) and a divisible volume stack are reached as well.
C13_EqualCasesSeen ==
    /\ ret_shape.called
    /\ header = [nx |-> 2, ny |-> 3, nz |-> 1, mz |-> 1,
                 ispg |-> IMAGE_STACK_SPACEGROUP]
    /\ ret_shape = Return(<<3, 2>>)

=============================================================================
